---------------------------- MODULE Spec2Model ----------------------------
(***************************************************************************)
(* A model of melior-build: the DialectBuilder configuration, the          *)
(* namespace resolver (DialectBuilder::namespace_subdir), the TableGen     *)
(* content classifier (tblgen::detect_td_contents), the generator invoker  *)
(* (TblgenRunner::generate_for_file) and the build pipeline                *)
(* (DialectBuilder::build).                                                *)
(*                                                                         *)
(* Strings are sequences of fragments.  A namespace string is a sequence   *)
(* over NsAlphabet, whose fragments are a blank, a single colon, the word  *)
(* "mlir" and one other identifier; a TableGen text is a sequence of       *)
(* single characters.                                                      *)
(***************************************************************************)
EXTENDS Integers, Sequences, FiniteSets, TLC

VARIABLES
    builder,      \* the DialectBuilder under configuration
    nsResult,     \* what the last namespace_subdir call returned
    tdFile,       \* the TableGen file handed to detect_td_contents
    tdResult,     \* what the last detect_td_contents call returned
    pc,           \* where DialectBuilder::build stands
    frame,        \* the locals of DialectBuilder::build
    log,          \* the directories made, processes run and files written
    shim,         \* the registration source written, if any
    result,       \* what build returned, once it has
    peers         \* the builds running side by side into one output root

unitVars == <<nsResult, tdFile, tdResult, peers>>
buildVars == <<pc, frame, log, shim, result>>
vars ==
    <<builder, nsResult, tdFile, tdResult, pc, frame, log, shim, result, peers>>

-----------------------------------------------------------------------------
(* Option and Result values                                                *)

None == [some |-> FALSE, v |-> <<>>]
Some(x) == [some |-> TRUE, v |-> x]

NoError == [kind |-> "none", msg |-> <<>>]
Ok(x) == [ok |-> TRUE, val |-> x, err |-> NoError]
Err(e) == [ok |-> FALSE, val |-> None, err |-> e]

NotCalled == [called |-> FALSE, input |-> None, out |-> Ok(None)]

-----------------------------------------------------------------------------
(* String helpers (str::trim, starts_with, ends_with, split, contains)     *)

MaxNsLen == 7

NsAlphabet == {" ", ":", "mlir", "x"}

Whitespace == {" ", "\t", "\n"}

SeqsUpTo(S, n) == UNION {[1..k -> S] : k \in 0..n}

NsStrings == SeqsUpTo(NsAlphabet, MaxNsLen)

Sep == <<":", ":">>

RECURSIVE trim_start(_)
trim_start(s) ==
    IF s # <<>> /\ Head(s) \in Whitespace THEN trim_start(Tail(s)) ELSE s

RECURSIVE trim_end(_)
trim_end(s) ==
    IF s # <<>> /\ s[Len(s)] \in Whitespace
    THEN trim_end(SubSeq(s, 1, Len(s) - 1))
    ELSE s

\* A trim that strips nothing.
trim_nothing(s) == s

trim(s) == trim_end(trim_start(s))

starts_with(s, p) == Len(s) >= Len(p) /\ SubSeq(s, 1, Len(p)) = p

ends_with(s, p) ==
    Len(s) >= Len(p) /\ SubSeq(s, Len(s) - Len(p) + 1, Len(s)) = p

\* s.split(p): the pieces between the non-overlapping occurrences of p,
\* found from the left; cur is the piece being collected.
RECURSIVE split_from(_, _, _)
split_from(s, p, cur) ==
    IF s = <<>> THEN <<cur>>
    ELSE IF starts_with(s, p)
         THEN <<cur>> \o split_from(SubSeq(s, Len(p) + 1, Len(s)), p, <<>>)
         ELSE split_from(Tail(s), p, Append(cur, Head(s)))

split(s, p) == split_from(s, p, <<>>)

\* p occurs in s at position i.
occurs_at(s, p, i) ==
    /\ i + Len(p) - 1 <= Len(s)
    /\ p # <<>> => s[i] = p[1]
    /\ SubSeq(s, i, i + Len(p) - 1) = p

contains(s, p) == \E i \in 1..(Len(s) - Len(p) + 1) : occurs_at(s, p, i)

-----------------------------------------------------------------------------
(* DialectBuilder::new and DialectBuilder::namespace_subdir                *)

new(name) ==
    [name |-> name, cpp_namespace |-> None, td_files |-> <<>>,
     include_dirs |-> <<>>, cpp_files |-> <<>>, output_dir |-> None]

InvalidNamespace(msg) == [kind |-> "InvalidNamespace", msg |-> msg]

MsgMalformed(ns) ==
    <<"cpp_namespace '">> \o ns \o
    <<"' has ", "invalid leading or trailing '::'", ".">>

MsgSingle(ns, single) ==
    <<"cpp_namespace '">> \o ns \o
    <<"' ", "must use the 'mlir::namespace' pattern", ". ",
      "Did you mean '", "mlir", ":", ":">> \o single \o <<"'?">>

MsgTooDeep(ns) ==
    <<"cpp_namespace '">> \o ns \o
    <<"' ", "has more than 2 levels", ". ",
      "Only 'mlir::namespace' pattern is supported.">>

\* A match that takes a lone segment as the subdirectory.
match_parts_single_ok(ns, parts) ==
    IF Len(parts) = 2 /\ parts[1] = <<"mlir">>
    THEN Ok(Some(parts[2]))
    ELSE IF Len(parts) = 1
         THEN Ok(Some(parts[1]))
         ELSE Err(InvalidNamespace(MsgTooDeep(ns)))

\* A match whose first arm takes any slice that begins ["mlir", dialect].
match_parts_prefix(ns, parts) ==
    IF Len(parts) >= 2 /\ parts[1] = <<"mlir">>
    THEN Ok(Some(parts[2]))
    ELSE IF Len(parts) = 1
         THEN Err(InvalidNamespace(MsgSingle(ns, parts[1])))
         ELSE Err(InvalidNamespace(MsgTooDeep(ns)))

\* The match over parts.as_slice(): ["mlir", dialect], then [single], then _.
match_parts(ns, parts) ==
    IF Len(parts) = 2 /\ parts[1] = <<"mlir">>
    THEN Ok(Some(parts[2]))
    ELSE IF Len(parts) = 1
         THEN Err(InvalidNamespace(MsgSingle(ns, parts[1])))
         ELSE Err(InvalidNamespace(MsgTooDeep(ns)))

\* A resolver that falls back to the dialect name when no namespace is set.
namespace_subdir_default_name(self) ==
    IF ~self.cpp_namespace.some THEN Ok(Some(self.name))
    ELSE LET ns == self.cpp_namespace.v
             trimmed == trim(ns)
         IN  IF trimmed = <<>> THEN Ok(None)
             ELSE IF starts_with(trimmed, Sep) \/ ends_with(trimmed, Sep)
                  THEN Err(InvalidNamespace(MsgMalformed(ns)))
                  ELSE match_parts(ns, split(trimmed, Sep))

\* A resolver without the leading/trailing separator check.
namespace_subdir_no_sep_check(self) ==
    IF ~self.cpp_namespace.some THEN Ok(None)
    ELSE LET ns == self.cpp_namespace.v
             trimmed == trim(ns)
         IN  IF trimmed = <<>> THEN Ok(None)
             ELSE match_parts(ns, split(trimmed, Sep))

\* A resolver that tests the untrimmed value for emptiness.
namespace_subdir_blank_unchecked(self) ==
    IF ~self.cpp_namespace.some THEN Ok(None)
    ELSE LET ns == self.cpp_namespace.v
             trimmed == trim(ns)
         IN  IF ns = <<>> THEN Ok(None)
             ELSE IF starts_with(trimmed, Sep) \/ ends_with(trimmed, Sep)
                  THEN Err(InvalidNamespace(MsgMalformed(ns)))
                  ELSE match_parts(ns, split(trimmed, Sep))

namespace_subdir(self) ==
    IF ~self.cpp_namespace.some THEN Ok(None)
    ELSE LET ns == self.cpp_namespace.v
             trimmed == trim(ns)
         IN  IF trimmed = <<>> THEN Ok(None)
             ELSE IF starts_with(trimmed, Sep) \/ ends_with(trimmed, Sep)
                  THEN Err(InvalidNamespace(MsgMalformed(ns)))
                  ELSE match_parts(ns, split(trimmed, Sep))

-----------------------------------------------------------------------------
(* Character strings of the TableGen texts and of the recognisers          *)

S_def ==
    <<"d", "e", "f">>

S_class ==
    <<"c", "l", "a", "s", "s">>

S_colon ==
    <<":">>

S_lt ==
    <<"<">>

S_lbrace ==
    <<"{">>

S_us ==
    <<"_">>

S_Dialect ==
    <<"D", "i", "a", "l", "e", "c", "t">>

S_Op ==
    <<"O", "p">>

S_Type ==
    <<"T", "y", "p", "e">>

S_TypeDef ==
    <<"T", "y", "p", "e", "D", "e", "f">>

S_Attr ==
    <<"A", "t", "t", "r">>

S_AttrDef ==
    <<"A", "t", "t", "r", "D", "e", "f">>

S_EnumAttr ==
    <<"E", "n", "u", "m", "A", "t", "t", "r">>

S_IntEnumAttr ==
    <<"I", "n", "t", "E", "n", "u", "m", "A", "t", "t", "r">>

S_BitEnumAttr ==
    <<"B", "i", "t", "E", "n", "u", "m", "A", "t", "t", "r">>

S_FunctionOpInterface ==
    <<"F", "u", "n", "c", "t", "i", "o", "n", "O", "p", "I", "n", "t", "e",
      "r", "f", "a", "c", "e">>

S_Foo ==
    <<"F", "o", "o">>

S_I32 ==
    <<"I", "3", "2">>

S_Params ==
    <<"<", "s", "t", "r", "i", "n", "g", " ", "m", ">">>

S_Args ==
    <<"\"", "x", "\"", ">", ";">>

S_ArgsIface ==
    <<"\"", "x", "\"", ",", " ", "[", "F", "u", "n", "c", "t", "i", "o",
      "n", "O", "p", "I", "n", "t", "e", "r", "f", "a", "c", "e", "]", ">",
      ";">>

S_Body ==
    <<" ", "}">>

-----------------------------------------------------------------------------
(* Regular expressions (regex::Regex::is_match)                            *)
(*                                                                         *)
(* A regex is a sequence of items: a literal, a starred or plussed         *)
(* character class, an optional literal, or an alternation of regexes.     *)

Lit(x) == [t |-> "lit", s |-> x, c |-> {}, a |-> <<>>]
Star(cls) == [t |-> "star", s |-> <<>>, c |-> cls, a |-> <<>>]
Plus(cls) == [t |-> "plus", s |-> <<>>, c |-> cls, a |-> <<>>]
Opt(x) == [t |-> "opt", s |-> x, c |-> {}, a |-> <<>>]
Alt(res) == [t |-> "alt", s |-> <<>>, c |-> {}, a |-> res]

\* \s
SpaceClass == Whitespace

\* \w
WordClass ==
    {"a", "b", "c", "d", "e", "f", "g", "h", "i", "j", "k", "l", "m",
     "n", "o", "p", "q", "r", "s", "t", "u", "v", "w", "x", "y", "z",
     "A", "B", "C", "D", "E", "F", "G", "H", "I", "J", "K", "L", "M",
     "N", "O", "P", "Q", "R", "S", "T", "U", "V", "W", "X", "Y", "Z",
     "0", "1", "2", "3", "4", "5", "6", "7", "8", "9", "_"}

\* The first position from q on whose character is not in cls.
RECURSIVE run_stop(_, _, _)
run_stop(text, cls, q) ==
    IF q <= Len(text) /\ text[q] \in cls THEN run_stop(text, cls, q + 1) ELSE q

\* The positions q >= p such that text[p..q-1] lies in cls.
RunEnds(text, cls, p) == p..run_stop(text, cls, p)

LitEnds(text, x, P) == {p + Len(x) : p \in {q \in P : occurs_at(text, x, q)}}

\* match_ends(re, text, P): the positions at which a match of re that starts
\* at a position of P can end.
RECURSIVE match_ends(_, _, _), item_ends(_, _, _), alt_ends(_, _, _)
item_ends(item, text, P) ==
    CASE item.t = "lit" -> LitEnds(text, item.s, P)
      [] item.t = "star" -> UNION {RunEnds(text, item.c, p) : p \in P}
      [] item.t = "plus" -> UNION {RunEnds(text, item.c, p) \ {p} : p \in P}
      [] item.t = "opt" -> P \cup LitEnds(text, item.s, P)
      [] item.t = "alt" -> alt_ends(item.a, text, P)

alt_ends(res, text, P) ==
    IF res = <<>> THEN {}
    ELSE match_ends(Head(res), text, P) \cup alt_ends(Tail(res), text, P)

match_ends(re, text, P) ==
    IF re = <<>> \/ P = {} THEN P
    ELSE match_ends(Tail(re), text, item_ends(Head(re), text, P))

\* Regex::is_match: a match may start anywhere in the text.
is_match(re, text) == match_ends(re, text, 1..(Len(text) + 1)) # {}

-----------------------------------------------------------------------------
(* tblgen.rs: the recognisers and detect_td_contents                       *)

\* A head that is not anchored on the def keyword: \w+\s*:\s*
DefHead_unanchored ==
    <<Plus(WordClass), Star(SpaceClass), Lit(S_colon), Star(SpaceClass)>>

\* def\s+\w+\s*:\s*
DefHead ==
    <<Lit(S_def), Plus(SpaceClass), Plus(WordClass), Star(SpaceClass),
      Lit(S_colon), Star(SpaceClass)>>

\* r"def\s+\w+\s*:\s*Dialect\s*\{"
DIALECT_RE == DefHead \o <<Lit(S_Dialect), Star(SpaceClass), Lit(S_lbrace)>>

\* A recogniser of custom bases only: r"def\s+\w+\s*:\s*\w+_Op<"
OP_RE_custom_only ==
    DefHead \o <<Plus(WordClass), Lit(S_us \o S_Op \o S_lt)>>

\* r"def\s+\w+\s*:\s*\w*_?Op<"
OP_RE == DefHead \o <<Star(WordClass), Opt(S_us), Lit(S_Op \o S_lt)>>

\* The type recogniser written with the attribute recogniser's literals.
TYPEDEF_RE_pasted ==
    DefHead \o
    <<Alt(<< <<Star(WordClass), Opt(S_us), Lit(S_Attr \o S_lt)>>,
             <<Lit(S_AttrDef \o S_lt)>> >>)>>

\* r"def\s+\w+\s*:\s*(\w*_?Type<|TypeDef<)"
TYPEDEF_RE ==
    DefHead \o
    <<Alt(<< <<Star(WordClass), Opt(S_us), Lit(S_Type \o S_lt)>>,
             <<Lit(S_TypeDef \o S_lt)>> >>)>>

\* r"def\s+\w+\s*:\s*(\w*_?Attr<|AttrDef<)"
ATTRDEF_RE ==
    DefHead \o
    <<Alt(<< <<Star(WordClass), Opt(S_us), Lit(S_Attr \o S_lt)>>,
             <<Lit(S_AttrDef \o S_lt)>> >>)>>

\* An enum recogniser anchored on def like the others.
ENUM_RE_anchored ==
    DefHead \o
    <<Star(WordClass),
      Alt(<< <<Lit(S_EnumAttr)>>, <<Lit(S_IntEnumAttr)>>,
             <<Lit(S_BitEnumAttr)>> >>)>>

\* r"(EnumAttr|IntEnumAttr|BitEnumAttr)"
ENUM_RE ==
    <<Alt(<< <<Lit(S_EnumAttr)>>, <<Lit(S_IntEnumAttr)>>,
             <<Lit(S_BitEnumAttr)>> >>)>>

IoError == [kind |-> "Io", msg |-> <<>>]

-----------------------------------------------------------------------------
(* The TableGen texts the classifier is run on: up to MaxStmts statements, *)
(* one per line, each a def or a class with a parent, in one of two        *)
(* layouts of the colon.                                                   *)

MaxStmts == 3

\* The parents a statement can name, by the kind of record they stand for.
Parents ==
    {"Dialect", "Op", "Foo_Op", "Foo_Op+iface", "TypeDef", "Foo_Type",
     "AttrDef", "Foo_Attr", "I32EnumAttr"}

ParentText(parent) ==
    CASE parent = "Dialect" -> S_Dialect \o <<" ">> \o S_lbrace \o S_Body
      [] parent = "Op" -> S_Op \o S_lt \o S_Args
      [] parent = "Foo_Op" -> S_Foo \o S_us \o S_Op \o S_lt \o S_Args
      [] parent = "Foo_Op+iface" ->
             S_Foo \o S_us \o S_Op \o S_lt \o S_ArgsIface
      [] parent = "TypeDef" -> S_TypeDef \o S_lt \o S_Args
      [] parent = "Foo_Type" -> S_Foo \o S_us \o S_Type \o S_lt \o S_Args
      [] parent = "AttrDef" -> S_AttrDef \o S_lt \o S_Args
      [] parent = "Foo_Attr" -> S_Foo \o S_us \o S_Attr \o S_lt \o S_Args
      [] parent = "I32EnumAttr" -> S_I32 \o S_EnumAttr \o S_lt \o S_Args

Stmt(kw, params, parent) == [kw |-> kw, params |-> params, parent |-> parent]

\* def statements have no template parameters; class statements come with
\* and without them.
Statements ==
    {Stmt("def", FALSE, p) : p \in Parents}
    \cup {Stmt("class", TRUE, p) :
             p \in {"Op", "TypeDef", "AttrDef", "I32EnumAttr", "Foo_Op+iface"}}
    \cup {Stmt("class", FALSE, "Op")}

\* "Foo:Op<" and "Foo :", a line break, "  Op<".
Layouts == {"tight", "broken"}

Colon(layout) ==
    CASE layout = "tight" -> <<":">>
      [] layout = "broken" -> <<" ", ":", "\n", " ", " ">>

StmtText(st, layout) ==
    (IF st.kw = "def" THEN S_def ELSE S_class) \o <<" ">> \o S_Foo
    \o (IF st.params THEN S_Params ELSE <<>>)
    \o Colon(layout) \o ParentText(st.parent) \o <<"\n">>

RECURSIVE Render(_, _)
Render(stmts, layout) ==
    IF stmts = <<>> THEN <<>>
    ELSE StmtText(Head(stmts), layout) \o Render(Tail(stmts), layout)

\* A file is known by its statements and layout; an unreadable one has none.
Unreadable == [readable |-> FALSE, stmts |-> <<>>, layout |-> "tight"]

TdFiles ==
    {Unreadable} \cup
    {[readable |-> TRUE, stmts |-> ss, layout |-> l] :
        ss \in SeqsUpTo(Statements, MaxStmts), l \in Layouts}

\* fs::read_to_string: the text of a readable file.
read_to_string(file) ==
    IF file.readable THEN Ok(Render(file.stmts, file.layout)) ELSE Err(IoError)

flags_of(content) ==
    [has_dialect |-> is_match(DIALECT_RE, content),
     has_ops |-> is_match(OP_RE, content),
     has_types |-> is_match(TYPEDEF_RE, content),
     has_attrs |-> is_match(ATTRDEF_RE, content),
     has_enums |-> is_match(ENUM_RE, content),
     has_function_interface |-> contains(content, S_FunctionOpInterface)]

detect_td_contents(path) ==
    LET content == read_to_string(path)
    IN  IF ~content.ok THEN Err(content.err) ELSE Ok(flags_of(content.val))

-----------------------------------------------------------------------------
(* Paths: a path is a sequence of components, a component a string.        *)

join(path, component) == Append(path, component)

\* Path::file_stem on the last component: none for "..", the whole name when
\* it has no dot or only a leading one, else the part before the last dot.
RECURSIVE last_dot(_, _)
last_dot(name, i) ==
    IF i = 0 THEN 0 ELSE IF name[i] = "." THEN i ELSE last_dot(name, i - 1)

file_stem(path) ==
    IF path = <<>> \/ path[Len(path)] = <<".", ".">> THEN None
    ELSE LET name == path[Len(path)]
             dot == last_dot(name, Len(name))
         IN  IF dot <= 1 THEN Some(name) ELSE Some(SubSeq(name, 1, dot - 1))

-----------------------------------------------------------------------------
(* TblgenRunner::generate_for_file and run_tblgen                          *)

Invocation(action, input, output, dialect) ==
    [action |-> action, input |-> input, output |-> output, dialect |-> dialect]

\* The two calls of one if-block of generate_for_file.
Pair(td_file, output_dir, dialect_name, stem, decls, defs, h, cpp) ==
    <<Invocation(decls, td_file, join(output_dir, stem \o <<h>>), dialect_name),
      Invocation(defs, td_file, join(output_dir, stem \o <<cpp>>), dialect_name)>>

DialectPair(td_file, output_dir, dialect_name, stem) ==
    Pair(td_file, output_dir, dialect_name, stem,
         "-gen-dialect-decls", "-gen-dialect-defs",
         "Dialect.h.inc", "Dialect.cpp.inc")

OpsPair(td_file, output_dir, dialect_name, stem) ==
    Pair(td_file, output_dir, dialect_name, stem,
         "-gen-op-decls", "-gen-op-defs", ".h.inc", ".cpp.inc")

\* An invoker that asks for the type definitions before the declarations.
TypesPair_defs_first(td_file, output_dir, dialect_name, stem) ==
    Pair(td_file, output_dir, dialect_name, stem,
         "-gen-typedef-defs", "-gen-typedef-decls",
         "Types.cpp.inc", "Types.h.inc")

TypesPair(td_file, output_dir, dialect_name, stem) ==
    Pair(td_file, output_dir, dialect_name, stem,
         "-gen-typedef-decls", "-gen-typedef-defs",
         "Types.h.inc", "Types.cpp.inc")

AttrsPair(td_file, output_dir, dialect_name, stem) ==
    Pair(td_file, output_dir, dialect_name, stem,
         "-gen-attrdef-decls", "-gen-attrdef-defs",
         "Attrs.h.inc", "Attrs.cpp.inc")

EnumsPair(td_file, output_dir, dialect_name, stem) ==
    Pair(td_file, output_dir, dialect_name, stem,
         "-gen-enum-decls", "-gen-enum-defs",
         "Enums.h.inc", "Enums.cpp.inc")

\* generate_for_file up to its first run_tblgen: the stem, or the Io error,
\* and the run_tblgen calls it goes on to make, in order, while none fails.
generate_for_file(td_file, output_dir, dialect_name, contents) ==
    LET stem == file_stem(td_file.path)
    IN  IF ~stem.some THEN Err(IoError)
        ELSE Ok((IF contents.has_dialect
                 THEN DialectPair(td_file.path, output_dir, dialect_name, stem.v)
                 ELSE <<>>)
             \o (IF contents.has_ops
                 THEN OpsPair(td_file.path, output_dir, dialect_name, stem.v)
                 ELSE <<>>)
             \o (IF contents.has_types
                 THEN TypesPair(td_file.path, output_dir, dialect_name, stem.v)
                 ELSE <<>>)
             \o (IF contents.has_attrs
                 THEN AttrsPair(td_file.path, output_dir, dialect_name, stem.v)
                 ELSE <<>>)
             \o (IF contents.has_enums
                 THEN EnumsPair(td_file.path, output_dir, dialect_name, stem.v)
                 ELSE <<>>))

TblgenFailed(action) ==
    [kind |-> "TblgenFailed",
     msg |-> <<"mlir-tblgen ", action, " failed:\n", "stderr">>]

-----------------------------------------------------------------------------
(* The stems record (tblgen::GeneratedFiles) and the registration source   *)
(* (cpp_gen::generate_cpp_registration)                                    *)

NoStems ==
    [dialect_stem |-> None, ops_stem |-> None, types_stem |-> None,
     attrs_stem |-> None, enums_stem |-> None,
     use_function_interface |-> FALSE]

\* The stems records the registration source may be synthesized from for a
\* list of files with their flags: each capability some file sets has the stem
\* of one of the files setting it, a capability no file sets has none.
StemProvenance(td_files, classified, use_function_interface) ==
    LET Stems(flag) ==
            LET setting == {k \in 1..Len(classified) : classified[k][flag]}
            IN  IF setting = {} THEN {None}
                ELSE {file_stem(td_files[k].path) : k \in setting}
    IN  {[dialect_stem |-> d, ops_stem |-> o, types_stem |-> t,
          attrs_stem |-> a, enums_stem |-> e,
          use_function_interface |-> use_function_interface] :
            d \in Stems("has_dialect"), o \in Stems("has_ops"),
            t \in Stems("has_types"), a \in Stems("has_attrs"),
            e \in Stems("has_enums")}

\* "<subdirectory>/<stem><suffix>", or "<stem><suffix>" with no subdirectory.
IncludePath(inc_subdir, stem, suffix) ==
    (IF inc_subdir.some THEN inc_subdir.v \o <<"/">> ELSE <<>>)
    \o stem \o <<suffix>>

IncludesOf(inc_subdir, stem, h, cpp) ==
    IF stem.some
    THEN <<IncludePath(inc_subdir, stem.v, h), IncludePath(inc_subdir, stem.v, cpp)>>
    ELSE <<>>

ToUpper(ch) ==
    LET lower == <<"a", "b", "c", "d", "e", "f", "g", "h", "i", "j", "k", "l",
                   "m", "n", "o", "p", "q", "r", "s", "t", "u", "v", "w", "x",
                   "y", "z">>
        upper == <<"A", "B", "C", "D", "E", "F", "G", "H", "I", "J", "K", "L",
                   "M", "N", "O", "P", "Q", "R", "S", "T", "U", "V", "W", "X",
                   "Y", "Z">>
    IN  IF \E i \in 1..Len(lower) : lower[i] = ch
        THEN upper[CHOOSE i \in 1..Len(lower) : lower[i] = ch]
        ELSE ch

RECURSIVE concat_capitalized(_)
concat_capitalized(parts) ==
    IF parts = <<>> THEN <<>>
    ELSE (IF Head(parts) = <<>> THEN <<>>
          ELSE <<ToUpper(Head(Head(parts)))>> \o Tail(Head(parts)))
         \o concat_capitalized(Tail(parts))

\* A conversion that capitalizes the first character only.
to_class_name_first_only(s) ==
    IF s = <<>> THEN <<>> ELSE <<ToUpper(Head(s))>> \o Tail(s)

to_class_name(s) == concat_capitalized(split(s, <<"_">>))

generate_cpp_registration(name, cpp_namespace, generated, inc_subdir) ==
    [class |-> cpp_namespace \o Sep \o to_class_name(name) \o <<"Dialect">>,
     function_interface_header |-> generated.use_function_interface,
     includes |->
         IncludesOf(inc_subdir, generated.dialect_stem,
                    "Dialect.h.inc", "Dialect.cpp.inc")
         \o IncludesOf(inc_subdir, generated.ops_stem, ".h.inc", ".cpp.inc")
         \o IncludesOf(inc_subdir, generated.types_stem,
                       "Types.h.inc", "Types.cpp.inc")
         \o IncludesOf(inc_subdir, generated.attrs_stem,
                       "Attrs.h.inc", "Attrs.cpp.inc")
         \o IncludesOf(inc_subdir, generated.enums_stem,
                       "Enums.h.inc", "Enums.cpp.inc"),
     types_block |-> generated.types_stem.some,
     attrs_block |-> generated.attrs_stem.some,
     enums_block |-> generated.enums_stem.some,
     macro |-> <<"MLIR_DEFINE_CAPI_DIALECT_REGISTRATION">>]

\* The file an include directive names, searched from the include directory.
ResolveInclude(include_dir, include) == include_dir \o split(include, <<"/">>)

-----------------------------------------------------------------------------
(* The binding module (rust_gen::generate_rust_ffi)                        *)

\* The four wrapped functions of a binding module.
BindingFunctions ==
    {<<"dialect_handle">>, <<"register">>, <<"load">>,
     <<"insert_into_registry">>}

\* The binding module of a dialect: the foreign symbol it declares, the inner
\* scope it defines, the functions defined in that scope, and the names its
\* `pub use <inner scope>::` re-exports into the scope that includes it.
generate_rust_ffi(name) ==
    [foreign_symbol |-> <<"mlirGetDialectHandle__">> \o name \o <<"__">>,
     inner_scope |-> name \o <<"_registration">>,
     functions |-> BindingFunctions,
     reexports |-> BindingFunctions]

-----------------------------------------------------------------------------
(* The configurations and files of the build specification                 *)

MaxFiles == 2

DialectName == <<"o", "p", "e", "r", "a", "n", "d", "_", "t", "e", "s", "t">>

TdFile(name, stmts) ==
    [path |-> <<<<"src">>, <<name, ".", "td">>>>,
     file |-> [readable |-> TRUE, stmts |-> stmts, layout |-> "broken"]]

TdCatalog ==
    {TdFile("BrilDialect", <<Stmt("class", TRUE, "Op"),
                             Stmt("def", FALSE, "Foo_Op")>>),
     TdFile("BrilInterfaces", <<Stmt("class", TRUE, "Foo_Op+iface")>>),
     TdFile("BrilTypes", <<Stmt("class", TRUE, "TypeDef"),
                           Stmt("def", FALSE, "Foo_Type")>>),
     TdFile("Bril", <<Stmt("def", FALSE, "Dialect"), Stmt("def", FALSE, "Foo_Type"),
                      Stmt("def", FALSE, "Foo_Op+iface")>>),
     TdFile("BrilAttrs", <<Stmt("def", FALSE, "Foo_Attr"),
                           Stmt("def", FALSE, "I32EnumAttr")>>),
     [path |-> <<<<"src">>, <<"Missing", ".", "td">>>>, file |-> Unreadable]}

\* detect_td_contents of each file a builder can be given, computed once.
DetectedContents ==
    [file \in {td.file : td \in TdCatalog} |-> detect_td_contents(file)]

NsSamples ==
    {<<"mlir", ":", ":", "x">>, <<" ", "mlir", ":", ":", "x", " ">>,
     <<"x">>, <<"mlir", ":", ":", "x", ":", ":", "x">>,
     <<"mlir", ":", ":", "x", ":", ":">>, <<"x", ":", ":", "x">>, <<" ">>}

OutputDirs == {<<<<"out">>>>}

\* The include directories and C++ files a builder can be given, and how
\* many of them in all.
MaxExtraPaths == 2

IncludeDirs == {<<<<"include1">>>>, <<<<"include2">>>>}

CppFiles ==
    {<<<<"src">>, <<"Verifiers.cpp">>>>, <<<<"src">>, <<"Canonicalize.cpp">>>>}

\* The value of the OUT_DIR variable when it is set.
EnvOutDir == <<<<"target">>>>

NoFrame ==
    [output_dir |-> <<>>, llvm_prefix |-> <<>>, cpp_namespace |-> <<>>,
     inc_base |-> <<>>, inc_subdir |-> None, inc_dir |-> <<>>,
     detected_types |-> FALSE, detected_attrs |-> FALSE,
     detected_enums |-> FALSE, detected_function_interface |-> FALSE,
     gen_options |-> None, generated |-> NoStems,
     next_file |-> 1, pending |-> <<>>, cpp_file |-> <<>>, classified |-> <<>>,
     binding |-> None]

-----------------------------------------------------------------------------
(* The resolver's specification: a builder with any namespace, on which    *)
(* namespace_subdir is called.                                             *)

NsBuilders ==
    {[new(<<"test">>) EXCEPT !.cpp_namespace = o] :
        o \in {None} \cup {Some(s) : s \in NsStrings}}

\* build is not running.
Idle ==
    /\ pc = "idle"
    /\ frame = NoFrame
    /\ log = <<>>
    /\ shim = None
    /\ result = None

InitNs ==
    /\ builder \in NsBuilders
    /\ nsResult = NotCalled
    /\ tdFile = Unreadable
    /\ tdResult = NotCalled
    /\ peers = <<>>
    /\ Idle

CallNamespaceSubdir ==
    /\ ~nsResult.called
    /\ nsResult' = [called |-> TRUE, input |-> builder.cpp_namespace,
                    out |-> namespace_subdir(builder)]
    /\ UNCHANGED <<builder, tdFile, tdResult, buildVars, peers>>

NextNs == CallNamespaceSubdir

SpecNs == InitNs /\ [][NextNs]_vars

-----------------------------------------------------------------------------
(* The classifier's specification: any file of TdFiles, on which           *)
(* detect_td_contents is called.                                           *)

InitTd ==
    /\ builder = new(<<"test">>)
    /\ nsResult = NotCalled
    /\ tdFile \in TdFiles
    /\ tdResult = NotCalled
    /\ peers = <<>>
    /\ Idle

CallDetectTdContents ==
    /\ ~tdResult.called
    /\ tdResult' = [called |-> TRUE, input |-> Some(tdFile),
                    out |-> detect_td_contents(tdFile)]
    /\ UNCHANGED <<builder, nsResult, tdFile, buildVars, peers>>

NextTd == CallDetectTdContents

SpecTd == InitTd /\ [][NextTd]_vars

-----------------------------------------------------------------------------
(* The build specification: a builder made by new, configured by the       *)
(* setters, then consumed by build, whose steps follow one another.        *)

Event(ev, prog, action, input, path, ok) ==
    [ev |-> ev, prog |-> prog, action |-> action, input |-> input,
     path |-> path, dialect |-> <<>>, ok |-> ok]

Mkdir(path, ok) == Event("mkdir", "", "", <<>>, path, ok)
Write(what, path, ok) == Event("write", "", what, <<>>, path, ok)
Process(prog, action, input, path, ok) ==
    Event("process", prog, action, input, path, ok)
\* Command::output returning an error: the program was not started.
SpawnFailed(prog, action, input, path) ==
    Event("spawn_failed", prog, action, input, path, FALSE)

\* std::env::var: the variable read, with its value when it is set.
EnvVar(name, value) == Event("env", "", name, <<>>, value.v, value.some)

Unit == <<>>

Returns(r) == pc' = "done" /\ result' = Some(r)

Init ==
    /\ builder = new(DialectName)
    /\ nsResult = NotCalled
    /\ tdFile = Unreadable
    /\ tdResult = NotCalled
    /\ peers = <<>>
    /\ pc = "config"
    /\ frame = NoFrame
    /\ log = <<>>
    /\ shim = None
    /\ result = None

\* DialectBuilder::cpp_namespace
cpp_namespace ==
    /\ pc = "config"
    /\ \E namespace \in NsSamples :
           builder' = [builder EXCEPT !.cpp_namespace = Some(namespace)]
    /\ UNCHANGED <<unitVars, buildVars>>

\* DialectBuilder::td_file
td_file ==
    /\ pc = "config"
    /\ Len(builder.td_files) < MaxFiles
    /\ \E path \in TdCatalog :
           builder' = [builder EXCEPT !.td_files = Append(@, path)]
    /\ UNCHANGED <<unitVars, buildVars>>

\* A td_files that assigns the list instead of extending it.
td_files_replace ==
    /\ pc = "config"
    /\ \E paths \in SeqsUpTo(TdCatalog, MaxFiles - Len(builder.td_files)) :
           builder' = [builder EXCEPT !.td_files = paths]
    /\ UNCHANGED <<unitVars, buildVars>>

\* DialectBuilder::td_files
td_files ==
    /\ pc = "config"
    /\ \E paths \in SeqsUpTo(TdCatalog, MaxFiles - Len(builder.td_files)) :
           builder' = [builder EXCEPT !.td_files = @ \o paths]
    /\ UNCHANGED <<unitVars, buildVars>>

\* How many more include directories and C++ files the builder may be given.
ExtraPathsLeft ==
    MaxExtraPaths - (Len(builder.include_dirs) + Len(builder.cpp_files))

\* DialectBuilder::include_dir
include_dir ==
    /\ pc = "config"
    /\ ExtraPathsLeft > 0
    /\ \E path \in IncludeDirs :
           builder' = [builder EXCEPT !.include_dirs = Append(@, path)]
    /\ UNCHANGED <<unitVars, buildVars>>

\* DialectBuilder::include_dirs
include_dirs ==
    /\ pc = "config"
    /\ \E paths \in SeqsUpTo(IncludeDirs, ExtraPathsLeft) :
           builder' = [builder EXCEPT !.include_dirs = @ \o paths]
    /\ UNCHANGED <<unitVars, buildVars>>

\* DialectBuilder::cpp_file
cpp_file ==
    /\ pc = "config"
    /\ ExtraPathsLeft > 0
    /\ \E path \in CppFiles :
           builder' = [builder EXCEPT !.cpp_files = Append(@, path)]
    /\ UNCHANGED <<unitVars, buildVars>>

\* DialectBuilder::cpp_files
cpp_files ==
    /\ pc = "config"
    /\ \E paths \in SeqsUpTo(CppFiles, ExtraPathsLeft) :
           builder' = [builder EXCEPT !.cpp_files = @ \o paths]
    /\ UNCHANGED <<unitVars, buildVars>>

\* DialectBuilder::output_dir
output_dir ==
    /\ pc = "config"
    /\ \E path \in OutputDirs :
           builder' = [builder EXCEPT !.output_dir = Some(path)]
    /\ UNCHANGED <<unitVars, buildVars>>

MissingOutDir == [kind |-> "MissingOutDir", msg |-> <<>>]

\* A get_output_dir that prefers OUT_DIR to the configured directory.
GetOutputDir_env_first ==
    /\ pc = "config"
    /\ \E env \in {None, Some(EnvOutDir)} :
           LET dir == IF env.some THEN env ELSE builder.output_dir
           IN  /\ log' = Append(log, EnvVar("OUT_DIR", env))
               /\ IF dir.some
                  THEN /\ pc' = "get_llvm_prefix"
                       /\ frame' = [frame EXCEPT !.output_dir = dir.v]
                       /\ UNCHANGED result
                  ELSE /\ Returns(Err(MissingOutDir))
                       /\ UNCHANGED frame
    /\ UNCHANGED <<builder, unitVars, shim>>

\* build, line 283: get_output_dir, with OUT_DIR set or not; the variable
\* is read only when no directory was configured.
GetOutputDir ==
    /\ pc = "config"
    /\ \E env \in {None, Some(EnvOutDir)} :
           LET dir == IF builder.output_dir.some THEN builder.output_dir
                      ELSE env
           IN  /\ log' = IF builder.output_dir.some THEN log
                         ELSE Append(log, EnvVar("OUT_DIR", env))
               /\ IF dir.some
                  THEN /\ pc' = "get_llvm_prefix"
                       /\ frame' = [frame EXCEPT !.output_dir = dir.v]
                       /\ UNCHANGED result
                  ELSE /\ Returns(Err(MissingOutDir))
                       /\ UNCHANGED frame
    /\ UNCHANGED <<builder, unitVars, shim>>

\* build, line 284: get_llvm_prefix.  llvm-config --prefix is run; when it
\* succeeds llvm-config --version is run and MLIR_SYS_<n>0_PREFIX overrides
\* its prefix; when it fails, or cannot be started, LLVM_PREFIX is read.
GetLlvmPrefix ==
    /\ pc = "get_llvm_prefix"
    /\ \E found \in {"llvm-config", "MLIR_SYS_PREFIX", "LLVM_PREFIX", "none"},
          started \in BOOLEAN :
           LET ran == found \in {"llvm-config", "MLIR_SYS_PREFIX"}
               calls ==
                   (IF ran \/ started
                    THEN <<Process("llvm-config", "--prefix", <<>>, <<>>, ran)>>
                    ELSE <<SpawnFailed("llvm-config", "--prefix", <<>>, <<>>)>>)
                   \o (IF ran
                       THEN <<Process("llvm-config", "--version", <<>>, <<>>, TRUE)>>
                       ELSE <<>>)
           IN  /\ log' = log \o calls
               /\ IF found = "none"
                  THEN /\ Returns(Err([kind |-> "LlvmNotFound", msg |-> <<>>]))
                       /\ UNCHANGED frame
                  ELSE /\ pc' = "prepare"
                       /\ frame' = [frame EXCEPT !.llvm_prefix = <<<<found>>>>]
                       /\ UNCHANGED result
    /\ UNCHANGED <<builder, unitVars, shim>>

\* build, lines 285-296: the namespace default, create_dir_all(output_dir),
\* TblgenRunner::new and create_dir_all(inc_base).
PrepareDirs ==
    /\ pc = "prepare"
    /\ \E made_out \in BOOLEAN, tblgen_exists \in BOOLEAN, made_inc \in BOOLEAN :
           LET inc_base == join(frame.output_dir, <<"inc">>)
               mk_out == Mkdir(frame.output_dir, made_out)
               mk_inc == Mkdir(inc_base, made_inc)
           IN  IF ~made_out
               THEN /\ log' = Append(log, mk_out)
                    /\ Returns(Err(IoError))
                    /\ UNCHANGED frame
               ELSE IF ~tblgen_exists
               THEN /\ log' = Append(log, mk_out)
                    /\ Returns(Err([kind |-> "TblgenNotFound", msg |-> <<>>]))
                    /\ UNCHANGED frame
               ELSE IF ~made_inc
               THEN /\ log' = log \o <<mk_out, mk_inc>>
                    /\ Returns(Err(IoError))
                    /\ UNCHANGED frame
               ELSE /\ log' = log \o <<mk_out, mk_inc>>
                    /\ pc' = "resolve"
                    /\ frame' =
                           [frame EXCEPT
                               !.cpp_namespace =
                                   IF builder.cpp_namespace.some
                                   THEN builder.cpp_namespace.v
                                   ELSE <<"mlir">> \o Sep \o builder.name,
                               !.inc_base = inc_base]
                    /\ UNCHANGED result
    /\ UNCHANGED <<builder, unitVars, shim>>

\* A build that generates into inc/ whatever the namespace.
inc_dir_flat(inc_base, inc_subdir) == inc_base

\* build, lines 302-309: the directory the .inc files go to.
inc_dir_of(inc_base, inc_subdir) ==
    IF inc_subdir.some THEN join(inc_base, inc_subdir.v) ELSE inc_base

\* build, lines 299-309: namespace_subdir and the directory of the .inc files.
ResolveIncDir ==
    /\ pc = "resolve"
    /\ LET inc_subdir == namespace_subdir(builder)
       IN  IF ~inc_subdir.ok
           THEN /\ Returns(Err(inc_subdir.err))
                /\ UNCHANGED <<frame, log>>
           ELSE LET dir == inc_dir_of(frame.inc_base, inc_subdir.val)
                IN  \E made \in BOOLEAN :
                        /\ log' = IF inc_subdir.val.some
                                  THEN Append(log, Mkdir(dir, made))
                                  ELSE log
                        /\ IF inc_subdir.val.some /\ ~made
                           THEN Returns(Err(IoError)) /\ UNCHANGED frame
                           ELSE /\ pc' = "files"
                                /\ frame' = [frame EXCEPT
                                                !.inc_subdir = inc_subdir.val,
                                                !.inc_dir = dir]
                                /\ UNCHANGED result
    /\ UNCHANGED <<builder, unitVars, shim>>

\* An aggregation that keeps the flag of the last file only.
or_assign_last(detected, has) == has

\* build, lines 319-322: detected |= has.
or_assign(detected, has) == detected \/ has

\* build, lines 316-330, for the next file: detect_td_contents, the flags
\* or-ed in, and generate_for_file entered.
\* frame.classified keeps the `contents` of each iteration so far.
DetectFile ==
    /\ pc = "files"
    /\ frame.pending = <<>>
    /\ frame.next_file <= Len(builder.td_files)
    /\ LET td == builder.td_files[frame.next_file]
           contents == DetectedContents[td.file]
       IN  IF ~contents.ok
           THEN Returns(Err(contents.err)) /\ UNCHANGED frame
           ELSE LET calls == generate_for_file(td, frame.inc_dir, builder.name,
                                               contents.val)
                IN  IF ~calls.ok
                    THEN Returns(Err(calls.err)) /\ UNCHANGED frame
                    ELSE /\ frame' =
                                 [frame EXCEPT
                                     !.detected_types =
                                         or_assign(@, contents.val.has_types),
                                     !.detected_attrs =
                                         or_assign(@, contents.val.has_attrs),
                                     !.detected_enums =
                                         or_assign(@, contents.val.has_enums),
                                     !.detected_function_interface =
                                         or_assign(@, contents.val.has_function_interface),
                                     !.classified = Append(@, contents.val),
                                     !.next_file = @ + 1,
                                     !.pending = calls.val]
                         /\ UNCHANGED <<pc, result>>
    /\ UNCHANGED <<builder, unitVars, log, shim>>

\* A run_tblgen that does not look at the exit status.
RunTblgen_unchecked ==
    /\ pc = "files"
    /\ frame.pending # <<>>
    /\ LET call == Head(frame.pending)
       IN  \E success \in BOOLEAN :
               log' = Append(log,
                   [Process("mlir-tblgen", call.action, call.input,
                            call.output, success)
                    EXCEPT !.dialect = call.dialect])
    /\ frame' = [frame EXCEPT !.pending = Tail(@)]
    /\ UNCHANGED <<builder, unitVars, shim, pc, result>>

\* run_tblgen: one run of mlir-tblgen, which succeeds, exits with a failure
\* status, or cannot be started.
RunTblgen ==
    /\ pc = "files"
    /\ frame.pending # <<>>
    /\ LET call == Head(frame.pending)
       IN  \E outcome \in {"success", "failure", "not started"} :
               /\ log' = Append(log,
                     [(IF outcome = "not started"
                       THEN SpawnFailed("mlir-tblgen", call.action,
                                        call.input, call.output)
                       ELSE Process("mlir-tblgen", call.action, call.input,
                                    call.output, outcome = "success"))
                      EXCEPT !.dialect = call.dialect])
               /\ IF outcome = "success"
                  THEN /\ frame' = [frame EXCEPT !.pending = Tail(@)]
                       /\ UNCHANGED <<pc, result>>
                  ELSE /\ Returns(Err(IF outcome = "failure"
                                      THEN TblgenFailed(call.action)
                                      ELSE IoError))
                       /\ UNCHANGED frame
    /\ UNCHANGED <<builder, unitVars, shim>>

\* build, lines 333-338: the options build hands to the synthesizer.
GenerationOptions(types, attrs, enums, function_interface) ==
    [generate_types |-> types,
     generate_attributes |-> attrs,
     generate_enums |-> enums,
     use_function_interface |-> function_interface]

\* build, lines 333-347: the registration source is synthesized and written.
\* build hands gen_options over; the synthesizer works from a stems record
\* (frame.generated), which nothing in build fills: it is any record that
\* StemProvenance allows for the files of this build.
GenerateCppRegistration ==
    /\ pc = "files"
    /\ frame.pending = <<>>
    /\ frame.next_file > Len(builder.td_files)
    /\ LET gen_options ==
               GenerationOptions(frame.detected_types, frame.detected_attrs,
                                 frame.detected_enums,
                                 frame.detected_function_interface)
           shim_file == join(frame.output_dir, builder.name \o <<"_capi.cpp">>)
       IN  \E written \in BOOLEAN,
              generated \in StemProvenance(builder.td_files, frame.classified,
                                           gen_options.use_function_interface) :
               /\ log' = Append(log, Write("shim", shim_file, written))
               /\ IF written
                  THEN /\ shim' = Some(generate_cpp_registration(
                                       builder.name, frame.cpp_namespace,
                                       generated, frame.inc_subdir))
                       /\ frame' = [frame EXCEPT !.cpp_file = shim_file,
                                                 !.gen_options = Some(gen_options),
                                                 !.generated = generated]
                       /\ pc' = "compile"
                       /\ UNCHANGED result
                  ELSE /\ Returns(Err(IoError))
                       /\ UNCHANGED <<frame, shim>>
    /\ UNCHANGED <<builder, unitVars>>

\* build, lines 349-356: compile_cpp, whose cc::Build::compile panics when
\* the compiler fails.
CompileCpp ==
    /\ pc = "compile"
    /\ \E compiled \in BOOLEAN :
           /\ log' = Append(log, Process("cc", "compile", frame.cpp_file,
                                         frame.inc_base, compiled))
           /\ IF compiled
              THEN pc' = "rust_ffi" /\ UNCHANGED result
              ELSE Returns(Err([kind |-> "panic", msg |-> <<>>]))
    /\ UNCHANGED <<builder, unitVars, frame, shim>>

\* A build that writes the binding module without waiting for the compile.
GenerateRustFfi_before_compile ==
    /\ pc = "compile"
    /\ LET rust_file == join(frame.output_dir, builder.name \o <<"_register.rs">>)
       IN  \E written \in BOOLEAN :
               /\ log' = Append(log, Write("binding", rust_file, written))
               /\ frame' = IF written
                           THEN [frame EXCEPT
                                    !.binding = Some(generate_rust_ffi(builder.name))]
                           ELSE frame
               /\ Returns(IF written THEN Ok(Unit) ELSE Err(IoError))
    /\ UNCHANGED <<builder, unitVars, shim>>

\* build, lines 358-369: the binding module is written and build returns.
GenerateRustFfi ==
    /\ pc = "rust_ffi"
    /\ LET rust_file == join(frame.output_dir, builder.name \o <<"_register.rs">>)
       IN  \E written \in BOOLEAN :
               /\ log' = Append(log, Write("binding", rust_file, written))
               /\ frame' = IF written
                           THEN [frame EXCEPT
                                    !.binding = Some(generate_rust_ffi(builder.name))]
                           ELSE frame
               /\ Returns(IF written THEN Ok(Unit) ELSE Err(IoError))
    /\ UNCHANGED <<builder, unitVars, shim>>

Next ==
    \/ cpp_namespace
    \/ td_file
    \/ output_dir
    \/ GetOutputDir
    \/ GetLlvmPrefix
    \/ PrepareDirs
    \/ ResolveIncDir
    \/ DetectFile
    \/ RunTblgen
    \/ GenerateCppRegistration
    \/ CompileCpp
    \/ GenerateRustFfi

Spec == Init /\ [][Next]_vars

-----------------------------------------------------------------------------
(* The configuration's specification: a builder made by new, on which the  *)
(* setters are called in any order; build is not called.                   *)

NextCfg ==
    \/ cpp_namespace
    \/ td_file
    \/ td_files
    \/ include_dir
    \/ include_dirs
    \/ cpp_file
    \/ cpp_files
    \/ output_dir

SpecCfg == Init /\ [][NextCfg]_vars

-----------------------------------------------------------------------------
(* The side-by-side specification: two builds, each of its own builder,    *)
(* run into one output root, their steps interleaved in any order.  A      *)
(* build is followed from namespace_subdir on, with the tools found and    *)
(* the directories made; it stops at the first generator failure.          *)

MaxPeerFiles == 1

PeerNames == {<<"t", "o", "y">>, <<"b", "r", "i", "l">>}

PeerNamespaces ==
    {None, Some(<<"mlir", ":", ":", "toy">>), Some(<<"mlir", ":", ":", "bril">>)}

PeerFiles ==
    {f \in TdCatalog :
        f.path[Len(f.path)] \in {<<"Bril", ".", "td">>, <<"BrilTypes", ".", "td">>}}

\* The output root the builds share.
PeerRoot == <<<<"out">>>>

PeerBuilders ==
    {[new(n) EXCEPT !.cpp_namespace = ns, !.td_files = fs,
                    !.output_dir = Some(PeerRoot)] :
        n \in PeerNames, ns \in PeerNamespaces,
        fs \in SeqsUpTo(PeerFiles, MaxPeerFiles)}

\* A build about to resolve its namespace: its builder, its position, the
\* locals inc_subdir and inc_dir, the loop over the files, the fragments its
\* generator runs have written and the binding module it has written.
Peer(b) ==
    [builder |-> b, pc |-> "start", inc_subdir |-> None, inc_dir |-> <<>>,
     next_file |-> 1, pending |-> <<>>, written |-> <<>>, binding |-> None]

InitPar ==
    /\ builder = new(<<"test">>)
    /\ nsResult = NotCalled
    /\ tdFile = Unreadable
    /\ tdResult = NotCalled
    /\ Idle
    /\ peers \in [1..2 -> {Peer(b) : b \in PeerBuilders}]

\* build, lines 294-309, in build i.
PeerResolveIncDir(i) ==
    /\ peers[i].pc = "start"
    /\ LET self == peers[i].builder
           inc_subdir == namespace_subdir(self)
           inc_base == join(self.output_dir.v, <<"inc">>)
       IN  peers' =
               IF ~inc_subdir.ok
               THEN [peers EXCEPT ![i].pc = "done"]
               ELSE [peers EXCEPT
                        ![i].pc = "files",
                        ![i].inc_subdir = inc_subdir.val,
                        ![i].inc_dir = inc_dir_of(inc_base, inc_subdir.val)]
    /\ UNCHANGED <<builder, nsResult, tdFile, tdResult, buildVars>>

\* build, lines 316-330, in build i, for its next file.
PeerDetectFile(i) ==
    /\ peers[i].pc = "files"
    /\ peers[i].pending = <<>>
    /\ peers[i].next_file <= Len(peers[i].builder.td_files)
    /\ LET self == peers[i].builder
           td == self.td_files[peers[i].next_file]
           contents == DetectedContents[td.file]
           calls == generate_for_file(td, peers[i].inc_dir, self.name,
                                      contents.val)
       IN  peers' =
               IF ~contents.ok \/ ~calls.ok
               THEN [peers EXCEPT ![i].pc = "done"]
               ELSE [peers EXCEPT ![i].next_file = @ + 1,
                                  ![i].pending = calls.val]
    /\ UNCHANGED <<builder, nsResult, tdFile, tdResult, buildVars>>

\* run_tblgen in build i: a successful run writes its output file.
PeerRunTblgen(i) ==
    /\ peers[i].pc = "files"
    /\ peers[i].pending # <<>>
    /\ LET call == Head(peers[i].pending)
       IN  \E success \in BOOLEAN :
               peers' =
                   IF success
                   THEN [peers EXCEPT ![i].pending = Tail(@),
                                      ![i].written = Append(@, call.output)]
                   ELSE [peers EXCEPT ![i].pc = "done"]
    /\ UNCHANGED <<builder, nsResult, tdFile, tdResult, buildVars>>

\* build, lines 333-369, in build i: the registration source, the compile
\* and the binding module, which is written when the first two succeed.
PeerFinish(i) ==
    /\ peers[i].pc = "files"
    /\ peers[i].pending = <<>>
    /\ peers[i].next_file > Len(peers[i].builder.td_files)
    /\ \E written \in BOOLEAN :
           peers' =
               [peers EXCEPT
                   ![i].pc = "done",
                   ![i].binding =
                       IF written
                       THEN Some(generate_rust_ffi(peers[i].builder.name))
                       ELSE None]
    /\ UNCHANGED <<builder, nsResult, tdFile, tdResult, buildVars>>

NextPar ==
    \E i \in 1..2 :
        \/ PeerResolveIncDir(i)
        \/ PeerDetectFile(i)
        \/ PeerRunTblgen(i)
        \/ PeerFinish(i)

SpecPar == InitPar /\ [][NextPar]_vars

-----------------------------------------------------------------------------
(* Claims about the namespace resolver (checked under SpecNs)              *)

Blank(s) == \A i \in 1..Len(s) : s[i] \in Whitespace

\* The index of the first non-blank fragment of s (Len(s) + 1 if none) and
\* of the last one (0 if none).
FirstNonBlank(s) ==
    CHOOSE i \in 1..(Len(s) + 1) :
        /\ i <= Len(s) => s[i] \notin Whitespace
        /\ \A k \in 1..(i - 1) : s[k] \in Whitespace

LastNonBlank(s) ==
    CHOOSE j \in 0..Len(s) :
        /\ j >= 1 => s[j] \notin Whitespace
        /\ \A k \in (j + 1)..Len(s) : s[k] \in Whitespace

\* The namespace the resolver was called with, without its surrounding
\* whitespace.
Core ==
    LET ns == nsResult.input.v
    IN  SubSeq(ns, FirstNonBlank(ns), LastNonBlank(ns))

Resolved == nsResult.called /\ nsResult.input.some

MlirPrefix == <<"mlir", ":", ":">>

\* The part of Core after the leading "mlir::".
Second == SubSeq(Core, Len(MlirPrefix) + 1, Len(Core))

TwoSegmentForm ==
    /\ Resolved
    /\ starts_with(Core, MlirPrefix)
    /\ Second # <<>>
    /\ ~contains(Second, Sep)

ErrorCites(phrase) ==
    /\ ~nsResult.out.ok
    /\ nsResult.out.err.kind = "InvalidNamespace"
    /\ contains(nsResult.out.err.msg, phrase)

\* C1 (as claimed): every namespace whose trimmed value is "mlir::X", X
\* non-empty and without "::", resolves to the subdirectory X.
C1_TwoSegmentResolves_Original ==
    TwoSegmentForm => nsResult.out = Ok(Some(Second))

\* C1 (amended): every namespace whose trimmed value is "mlir::X", X
\* non-empty, without "::" and not the single character ":", resolves to the
\* subdirectory X.
C1_TwoSegmentResolves ==
    (TwoSegmentForm /\ Second # <<":">>) => nsResult.out = Ok(Some(Second))

C1_Witness ==
    /\ nsResult.called
    /\ nsResult.input = Some(<<" ", " ", "mlir", ":", ":", "x", " ">>)
    /\ nsResult.out = Ok(Some(<<"x">>))

\* C2: every namespace whose trimmed value is non-empty and has no "::" is
\* rejected with the invalid-namespace error that names the 'mlir::namespace'
\* pattern and suggests 'mlir::<the trimmed value>'.
C2_SingleSegmentRejected ==
    (Resolved /\ Core # <<>> /\ ~contains(Core, Sep)) =>
        /\ ErrorCites(<<"must use the 'mlir::namespace' pattern">>)
        /\ ErrorCites(<<"Did you mean '">> \o MlirPrefix \o Core \o <<"'?">>)

C2_Witness ==
    /\ nsResult.called
    /\ nsResult.input = Some(<<"mlir">>)
    /\ ErrorCites(<<"Did you mean '", "mlir", ":", ":", "mlir", "'?">>)

\* C3: every namespace whose trimmed value neither starts nor ends with "::"
\* and has three or more "::"-separated segments is rejected with the
\* invalid-namespace error citing 'has more than 2 levels'.
C3_TooDeepRejected ==
    (/\ Resolved
     /\ ~starts_with(Core, Sep)
     /\ ~ends_with(Core, Sep)
     /\ Len(split(Core, Sep)) >= 3) =>
        ErrorCites(<<"has more than 2 levels">>)

C3_Witness ==
    /\ nsResult.called
    /\ nsResult.input = Some(<<"mlir", ":", ":", "x", ":", ":", "x">>)
    /\ ErrorCites(<<"has more than 2 levels">>)

\* C4: every namespace whose trimmed value starts or ends with "::" is
\* rejected with the error citing an invalid leading or trailing '::', and
\* with no other message, whatever its number of segments.
C4_MalformedSeparatorFirst ==
    (Resolved /\ (starts_with(Core, Sep) \/ ends_with(Core, Sep))) =>
        /\ ErrorCites(<<"invalid leading or trailing '::'">>)
        /\ ~ErrorCites(<<"has more than 2 levels">>)
        /\ ~ErrorCites(<<"must use the 'mlir::namespace' pattern">>)

C4_Witness ==
    /\ nsResult.called
    /\ nsResult.input = Some(<<"mlir", ":", ":", "x", ":", ":">>)
    /\ Len(split(Core, Sep)) = 3
    /\ ErrorCites(<<"invalid leading or trailing '::'">>)

\* C5: with no namespace configured, or an empty or whitespace-only one,
\* resolution succeeds with no subdirectory.
C5_AbsentOrBlankNoSubdir ==
    (nsResult.called /\ (~nsResult.input.some \/ Blank(nsResult.input.v))) =>
        nsResult.out = Ok(None)

C5_Witness ==
    /\ nsResult.called
    /\ nsResult.input = Some(<<" ", " ">>)
    /\ nsResult.out = Ok(None)

-----------------------------------------------------------------------------
(* Claims about the classifier (checked under SpecTd)                      *)

Classified == tdResult.called /\ tdResult.input.v.readable /\ tdResult.out.ok

ClassifiedStmts == tdResult.input.v.stmts

Flags == tdResult.out.val

Kinds == {"ops", "types", "attrs"}

\* The reserved base form of a kind, and the parents that derive a record of
\* the kind: the base itself or a custom template ending in _Op<, _Type<,
\* _Attr<.
BaseOf(kind) ==
    CASE kind = "ops" -> "Op"
      [] kind = "types" -> "TypeDef"
      [] kind = "attrs" -> "AttrDef"

ParentsOf(kind) ==
    CASE kind = "ops" -> {"Op", "Foo_Op", "Foo_Op+iface"}
      [] kind = "types" -> {"TypeDef", "Foo_Type"}
      [] kind = "attrs" -> {"AttrDef", "Foo_Attr"}

FlagOf(kind) ==
    CASE kind = "ops" -> Flags.has_ops
      [] kind = "types" -> Flags.has_types
      [] kind = "attrs" -> Flags.has_attrs

HasStmt(P(_)) == \E i \in 1..Len(ClassifiedStmts) : P(ClassifiedStmts[i])

AllStmts(P(_)) == \A i \in 1..Len(ClassifiedStmts) : P(ClassifiedStmts[i])

IsClass(st) == st.kw = "class"

IsDialectDef(st) == st.kw = "def" /\ st.parent = "Dialect"

\* C6: a text made of template declarations only (class statements, beside
\* which it may define the dialect) has, for each kind of which it declares
\* a template, the flag of that kind false.
C6_ClassDeclarationsNotDetected ==
    \A kind \in Kinds :
        (/\ Classified
         /\ AllStmts(LAMBDA st : IsClass(st) \/ IsDialectDef(st))
         /\ HasStmt(LAMBDA st : IsClass(st) /\ st.parent = BaseOf(kind)))
        => ~FlagOf(kind)

C6_Witness ==
    /\ Classified
    /\ tdResult.input.v.layout = "broken"
    /\ ClassifiedStmts = <<Stmt("def", FALSE, "Dialect"),
                           Stmt("class", FALSE, "Op"),
                           Stmt("class", TRUE, "TypeDef")>>
    /\ Flags.has_dialect /\ ~Flags.has_ops /\ ~Flags.has_types

\* C7: a text with a def whose parent is the base form of a kind, or a custom
\* template ending in _Op<, _Type<, _Attr<, has the flag of that kind true,
\* with or without class declarations beside it.
C7_DefinitionsDetected ==
    \A kind \in Kinds :
        (/\ Classified
         /\ HasStmt(LAMBDA st : st.kw = "def" /\ st.parent \in ParentsOf(kind)))
        => FlagOf(kind)

C7_Witness ==
    /\ Classified
    /\ tdResult.input.v.layout = "tight"
    /\ ClassifiedStmts = <<Stmt("class", TRUE, "Op"), Stmt("def", FALSE, "Op")>>
    /\ Flags.has_ops

\* C8: a text that defines a dialect, one operation and one type record, in
\* any order, and nothing else, has the dialect, operations and types flags
\* true and the attributes, enums and function-interface flags false.
DialectOpType ==
    /\ Len(ClassifiedStmts) = 3
    /\ AllStmts(LAMBDA st : st.kw = "def")
    /\ HasStmt(IsDialectDef)
    /\ HasStmt(LAMBDA st : st.parent \in {"Op", "Foo_Op"})
    /\ HasStmt(LAMBDA st : st.parent \in {"TypeDef", "Foo_Type"})

C8_CombinedFile ==
    (Classified /\ DialectOpType) =>
        Flags = [has_dialect |-> TRUE, has_ops |-> TRUE, has_types |-> TRUE,
                 has_attrs |-> FALSE, has_enums |-> FALSE,
                 has_function_interface |-> FALSE]

C8_Witness ==
    /\ Classified
    /\ ClassifiedStmts = <<Stmt("def", FALSE, "Dialect"),
                           Stmt("def", FALSE, "Foo_Type"),
                           Stmt("def", FALSE, "Foo_Op")>>
    /\ Flags.has_dialect /\ Flags.has_ops /\ Flags.has_types

\* C9: the enums flag is true exactly when the text contains EnumAttr,
\* IntEnumAttr or BitEnumAttr somewhere, and the function-interface flag
\* exactly when it contains FunctionOpInterface somewhere, in a def as in a
\* class.
C9_ReferenceFlags ==
    Classified =>
        LET text == Render(ClassifiedStmts, tdResult.input.v.layout)
        IN  /\ Flags.has_enums <=>
                  \/ contains(text, S_EnumAttr)
                  \/ contains(text, S_IntEnumAttr)
                  \/ contains(text, S_BitEnumAttr)
            /\ Flags.has_enums <=>
                  HasStmt(LAMBDA st : st.parent = "I32EnumAttr")
            /\ Flags.has_function_interface <=>
                  contains(text, S_FunctionOpInterface)
            /\ Flags.has_function_interface <=>
                  HasStmt(LAMBDA st : st.parent = "Foo_Op+iface")

C9_Witness ==
    /\ Classified
    /\ ClassifiedStmts = <<Stmt("class", TRUE, "I32EnumAttr"),
                           Stmt("class", TRUE, "Foo_Op+iface")>>
    /\ Flags.has_enums /\ Flags.has_function_interface
    /\ ~Flags.has_ops /\ ~Flags.has_attrs

-----------------------------------------------------------------------------
(* Claims about the build (checked under Spec)                             *)

Succeeded == result = Some(Ok(Unit))

\* The paths the successful mlir-tblgen runs of this build wrote.
GeneratedPaths ==
    {log[i].path : i \in {j \in 1..Len(log) :
        log[j].ev = "process" /\ log[j].prog = "mlir-tblgen" /\ log[j].ok}}

\* The include directories the compiler was given.
CompileIncludeDirs ==
    {log[i].path : i \in {j \in 1..Len(log) :
        log[j].ev = "process" /\ log[j].prog = "cc"}}

-----------------------------------------------------------------------------
(* C11: the generator invocations of a file                                *)

\* The mlir-tblgen invocations of the build so far, in order.
TblgenRuns == SelectSeq(log, LAMBDA e : e.prog = "mlir-tblgen")

\* Every file of the list has been classified and all its invocations made.
AllGenerated ==
    /\ frame.next_file > Len(builder.td_files)
    /\ frame.pending = <<>>

\* The flags detect_td_contents returned for the k-th file of the list.
FileFlags(k) == frame.classified[k]

\* The five generation capabilities with their actions and output suffixes.
GenerationTable ==
    {[flag |-> "has_dialect", decls |-> "-gen-dialect-decls",
      defs |-> "-gen-dialect-defs", h |-> "Dialect.h.inc",
      cpp |-> "Dialect.cpp.inc"],
     [flag |-> "has_ops", decls |-> "-gen-op-decls", defs |-> "-gen-op-defs",
      h |-> ".h.inc", cpp |-> ".cpp.inc"],
     [flag |-> "has_types", decls |-> "-gen-typedef-decls",
      defs |-> "-gen-typedef-defs", h |-> "Types.h.inc",
      cpp |-> "Types.cpp.inc"],
     [flag |-> "has_attrs", decls |-> "-gen-attrdef-decls",
      defs |-> "-gen-attrdef-defs", h |-> "Attrs.h.inc",
      cpp |-> "Attrs.cpp.inc"],
     [flag |-> "has_enums", decls |-> "-gen-enum-decls",
      defs |-> "-gen-enum-defs", h |-> "Enums.h.inc",
      cpp |-> "Enums.cpp.inc"]}

\* The completed invocation the table prescribes for a path, an action and
\* an output suffix.
Prescribed(path, action, suffix) ==
    [Process("mlir-tblgen", action, path,
             join(frame.inc_dir, file_stem(path).v \o <<suffix>>), TRUE)
     EXCEPT !.dialect = builder.name]

\* How many files of the list have this path and set this flag.
FilesSetting(path, flag) ==
    Cardinality({k \in 1..Len(builder.td_files) :
        builder.td_files[k].path = path /\ FileFlags(k)[flag]})

RunsEqualTo(ev) ==
    Cardinality({i \in 1..Len(TblgenRuns) : TblgenRuns[i] = ev})

\* The build failed inside the loop over the files.
FailedInLoop ==
    /\ pc = "done" /\ ~result.v.ok
    /\ frame.inc_dir # <<>>
    /\ ~shim.some
    /\ log[Len(log)].ev # "write"

\* C11: once every file is processed with all generator calls succeeding,
\* the invocations are exactly, for each file and each generation capability
\* the file sets, the declarations call followed by the definitions call,
\* with the table's action, the output <inc dir>/<stem><suffix> and
\* --dialect=<dialect name>; a file setting none of the five causes none
\* and does not make the build fail.
C11_GeneratorInvocations ==
    /\ AllGenerated =>
           /\ \A c \in GenerationTable :
                  \A k \in 1..Len(builder.td_files) :
                      LET path == builder.td_files[k].path
                      IN  /\ RunsEqualTo(Prescribed(path, c.decls, c.h))
                                 = FilesSetting(path, c.flag)
                          /\ RunsEqualTo(Prescribed(path, c.defs, c.cpp))
                                 = FilesSetting(path, c.flag)
           /\ \A i \in 1..Len(TblgenRuns) :
                  \E c \in GenerationTable :
                      LET path == TblgenRuns[i].input
                      IN  \/ /\ TblgenRuns[i] = Prescribed(path, c.decls, c.h)
                             /\ i < Len(TblgenRuns)
                             /\ TblgenRuns[i + 1] = Prescribed(path, c.defs, c.cpp)
                          \/ /\ TblgenRuns[i] = Prescribed(path, c.defs, c.cpp)
                             /\ i > 1
                             /\ TblgenRuns[i - 1] = Prescribed(path, c.decls, c.h)
    /\ FailedInLoop =>
           \/ ~log[Len(log)].ok /\ log[Len(log)].prog = "mlir-tblgen"
           \/ /\ frame.next_file <= Len(builder.td_files)
              /\ ~builder.td_files[frame.next_file].file.readable

C11_Witness ==
    /\ Succeeded
    /\ Len(builder.td_files) = 2
    /\ builder.td_files[1].path = <<<<"src">>, <<"BrilInterfaces", ".", "td">>>>
    /\ builder.td_files[2].path = <<<<"src">>, <<"Bril", ".", "td">>>>
    /\ Len(TblgenRuns) = 6
    /\ \A i \in 1..6 : TblgenRuns[i].input = builder.td_files[2].path
    /\ TblgenRuns[5].action = "-gen-typedef-decls"
    /\ TblgenRuns[6].path = <<<<"target">>, <<"inc">>, <<"Bril", "Types.cpp.inc">>>>

-----------------------------------------------------------------------------
(* C12: a failing generator invocation ends the build                      *)

\* The i-th event of the build is an mlir-tblgen run that exited with a
\* failure status.
GeneratorFailedAt(i) ==
    /\ log[i].ev = "process"
    /\ log[i].prog = "mlir-tblgen"
    /\ ~log[i].ok

\* C12: a generator invocation that exits with a failure status is the last
\* thing the build does: build has returned the generator-failure error
\* naming that invocation's action and carrying its standard error, no
\* event follows it (no retry, no other invocation, no compile, no write)
\* and no registration source exists.
C12_GeneratorFailureFatal ==
    \A i \in 1..Len(log) :
        GeneratorFailedAt(i) =>
            /\ i = Len(log)
            /\ pc = "done"
            /\ result.some /\ ~result.v.ok
            /\ result.v.err.kind = "TblgenFailed"
            /\ result.v.err.msg =
                   <<"mlir-tblgen ", log[i].action, " failed:\n", "stderr">>
            /\ ~shim.some
            /\ \A j \in 1..Len(log) :
                   ~(log[j].ev = "write" \/ log[j].prog = "cc")

C12_Witness ==
    /\ Len(builder.td_files) = 2
    /\ Len(log) > 0
    /\ GeneratorFailedAt(Len(log))
    /\ log[Len(log)].action = "-gen-attrdef-decls"
    /\ Len(TblgenRuns) = 3
    /\ result = Some(Err(TblgenFailed("-gen-attrdef-decls")))

-----------------------------------------------------------------------------
(* C13: a malformed namespace and the external processes                   *)

\* An external process has been run by this build.
ProcessRan == \E j \in 1..Len(log) : log[j].ev = "process"

\* build has returned the error of namespace_subdir.
ReturnedNamespaceError ==
    /\ pc = "done"
    /\ result.some /\ ~result.v.ok
    /\ result.v.err.kind = "InvalidNamespace"

\* C13: when build returns the namespace configuration error, no external
\* process has been run by that build.
C13_NamespaceErrorBeforeProcesses ==
    ReturnedNamespaceError => ~ProcessRan

-----------------------------------------------------------------------------
(* C14: an unreadable input file and the external processes                *)

\* build has returned the error of detect_td_contents on a file it could
\* not read.
ReturnedReadError ==
    /\ FailedInLoop
    /\ frame.pending = <<>>
    /\ frame.next_file <= Len(builder.td_files)
    /\ ~builder.td_files[frame.next_file].file.readable
    /\ result = Some(Err(IoError))

\* No generator invocation has been made for any file of the list.
NoGeneratorRun == TblgenRuns = <<>>

\* C14: when build returns the error of an unreadable input file, no
\* external process has been run by that build, and in particular no
\* generator invocation has been made for any other input file.
C14_ReadErrorBeforeProcesses ==
    ReturnedReadError => ~ProcessRan /\ NoGeneratorRun

-----------------------------------------------------------------------------
(* C15: the output directory                                               *)

\* build has been called.
BuildCalled == pc # "config"

ReturnedMissingOutDir == pc = "done" /\ result = Some(Err(MissingOutDir))

\* A directory or file below the output directory.
UnderOutputDir(path) ==
    /\ Len(path) >= Len(frame.output_dir)
    /\ SubSeq(path, 1, Len(frame.output_dir)) = frame.output_dir

\* C15: once build is called, its output directory is the configured one
\* when one was set and the value of OUT_DIR otherwise, and everything it
\* creates lies below it; with no configured directory and OUT_DIR unset,
\* build has returned MissingOutDir having created no directory and run no
\* process; in no other case is MissingOutDir returned.
C15_OutputDirResolution ==
    BuildCalled =>
        IF builder.output_dir.some
        THEN /\ frame.output_dir = builder.output_dir.v
             /\ ~ReturnedMissingOutDir
             /\ \A j \in 1..Len(log) :
                    log[j].ev \in {"mkdir", "write"} => UnderOutputDir(log[j].path)
        ELSE /\ Len(log) >= 1
             /\ log[1] = EnvVar("OUT_DIR", [some |-> log[1].ok, v |-> log[1].path])
             /\ IF log[1].ok
                THEN /\ frame.output_dir = log[1].path
                     /\ ~ReturnedMissingOutDir
                     /\ \A j \in 1..Len(log) :
                            log[j].ev \in {"mkdir", "write"}
                                => UnderOutputDir(log[j].path)
                ELSE /\ ReturnedMissingOutDir
                     /\ Len(log) = 1

C15_Witness ==
    /\ ReturnedMissingOutDir
    /\ ~builder.output_dir.some
    /\ builder.td_files # <<>>
    /\ log = <<EnvVar("OUT_DIR", None)>>

-----------------------------------------------------------------------------
(* C16: aggregation of the flags                                           *)

CapabilityFlags ==
    {"has_dialect", "has_ops", "has_types", "has_attrs", "has_enums",
     "has_function_interface"}

\* The aggregated flags of the build: the four detected_* locals, and for
\* the dialect and the operations the presence of a stem in the record the
\* registration source is synthesized from.
Aggregated ==
    [has_dialect |-> frame.generated.dialect_stem.some,
     has_ops |-> frame.generated.ops_stem.some,
     has_types |-> frame.detected_types,
     has_attrs |-> frame.detected_attrs,
     has_enums |-> frame.detected_enums,
     has_function_interface |-> frame.detected_function_interface]

\* The flag records of the files classified so far, whatever their order.
ClassifiedSet == {frame.classified[k] : k \in 1..Len(frame.classified)}

OrOverFiles(flag) == \E contents \in ClassifiedSet : contents[flag]

-----------------------------------------------------------------------------
(* C17: stem provenance                                                    *)

\* The five generation capabilities with the field of their stem.
StemFields ==
    {[flag |-> "has_dialect", stem |-> "dialect_stem"],
     [flag |-> "has_ops", stem |-> "ops_stem"],
     [flag |-> "has_types", stem |-> "types_stem"],
     [flag |-> "has_attrs", stem |-> "attrs_stem"],
     [flag |-> "has_enums", stem |-> "enums_stem"]}

\* The stem of a capability in the record build handed to
\* generate_cpp_registration, if the record holds one.
HandedStem(field) ==
    IF frame.gen_options.some /\ field \in DOMAIN frame.gen_options.v
    THEN frame.gen_options.v[field]
    ELSE None

\* The base names of the files of the list that set a flag.
StemsSetting(flag) ==
    {file_stem(builder.td_files[k].path).v :
        k \in {j \in 1..Len(frame.classified) : frame.classified[j][flag]}}

\* C17: once the registration source is synthesized, the record build
\* handed to the synthesizer holds, for each capability some file set, a
\* stem that is the base name of a file that set it, and no stem for a
\* capability no file set.
C17_StemProvenance ==
    shim.some =>
        \A c \in StemFields :
            IF OrOverFiles(c.flag)
            THEN /\ HandedStem(c.stem).some
                 /\ HandedStem(c.stem).v \in StemsSetting(c.flag)
            ELSE ~HandedStem(c.stem).some

-----------------------------------------------------------------------------
(* C18: the include paths of the registration source                       *)

ShimIncludes == {shim.v.includes[i] : i \in 1..Len(shim.v.includes)}

\* The two output suffixes of a generation capability.
SuffixesOf(flag) ==
    LET c == CHOOSE g \in GenerationTable : g.flag = flag
    IN  {c.h, c.cpp}

-----------------------------------------------------------------------------
(* C19: the conditional sections of the registration source                *)

\* "OperandTest", the CamelCase form of the dialect name "operand_test".
CamelCaseName == <<"O", "p", "e", "r", "a", "n", "d", "T", "e", "s", "t">>

-----------------------------------------------------------------------------
(* Claims about the resolver's error messages (checked under SpecNs)       *)

\* The "::"-separated segments of the trimmed namespace.
Segments == split(Core, Sep)

Rejected == Resolved /\ ~nsResult.out.ok

\* C28: the 'has more than 2 levels' error is returned only for namespaces
\* with three or more "::"-separated segments, and a namespace with exactly
\* two segments whose first is not "mlir" is rejected with an error that does
\* not cite 'has more than 2 levels'.
C28_ErrorClassification ==
    /\ (Resolved /\ ErrorCites(<<"has more than 2 levels">>)) =>
           Len(Segments) >= 3
    /\ (Resolved /\ Len(Segments) = 2 /\ Segments[1] # <<"mlir">>) =>
           (Rejected /\ ~ErrorCites(<<"has more than 2 levels">>))

-----------------------------------------------------------------------------
(* Claims about enum definitions (checked under SpecTd)                    *)

\* The parents of the texts that are enum-attribute bases.
EnumBases == {"I32EnumAttr"}

IsEnumDef(st) == st.kw = "def" /\ st.parent \in EnumBases

\* C29: a file whose only definitions derive from an enum-attribute base
\* sets the enum-records flag and not the attribute-records flag.
C29_EnumOnlyFile ==
    (Classified /\ ClassifiedStmts # <<>> /\ AllStmts(IsEnumDef)) =>
        (Flags.has_enums /\ ~Flags.has_attrs)

-----------------------------------------------------------------------------
(* C22: a build without input files (checked under Spec)                   *)

\* An artifact of the build was produced: the registration source or the
\* binding module was written, or the native compile ran to success.
Produced(what) ==
    \E i \in 1..Len(log) :
        /\ log[i].ok
        /\ \/ log[i].ev = "write" /\ log[i].action = what
           \/ log[i].ev = "process" /\ log[i].prog = "cc" /\ what = "library"

\* C22: build on a configuration whose input-file list is empty does not
\* complete successfully, and produces no shim, library or binding.
C22_EmptyFileListFails ==
    (BuildCalled /\ builder.td_files = <<>>) =>
        /\ ~Succeeded
        /\ ~Produced("shim") /\ ~Produced("library") /\ ~Produced("binding")

-----------------------------------------------------------------------------
(* C27: the namespace the registration source is synthesized with          *)
(* (checked under Spec)                                                    *)

\* The namespace string build handed to generate_cpp_registration.
HandedNamespace == frame.cpp_namespace

\* s is "mlir::X" with X non-empty, without "::" and without whitespace at
\* either end of s.
WellFormedTwoSegment(s) ==
    /\ starts_with(s, MlirPrefix)
    /\ Len(s) > Len(MlirPrefix)
    /\ ~contains(SubSeq(s, Len(MlirPrefix) + 1, Len(s)), Sep)
    /\ s[1] \notin Whitespace /\ s[Len(s)] \notin Whitespace

NoneOrBlankConfigured ==
    ~builder.cpp_namespace.some \/ Blank(builder.cpp_namespace.v)

\* C27: whenever the registration source has been synthesized, the namespace
\* handed over is a well-formed "mlir::X": "mlir::<dialect name>" when no
\* namespace or a blank one was configured, else the configured one; and a
\* resolved subdirectory equals that X.
C27_NamespaceHandedToShim ==
    shim.some =>
        /\ WellFormedTwoSegment(HandedNamespace)
        /\ NoneOrBlankConfigured =>
               HandedNamespace = MlirPrefix \o builder.name
        /\ ~NoneOrBlankConfigured =>
               HandedNamespace = trim(builder.cpp_namespace.v)
        /\ frame.inc_subdir.some =>
               HandedNamespace = MlirPrefix \o frame.inc_subdir.v

-----------------------------------------------------------------------------
(* C26: the output paths of one build (checked under Spec)                 *)

\* The string a file name spells: its pieces put end to end.
RECURSIVE Text(_)
Text(name) == IF name = <<>> THEN "" ELSE Head(name) \o Text(Tail(name))

\* Two paths name the same file: their components spell the same strings.
SameFile(p, q) ==
    /\ Len(p) = Len(q)
    /\ \A i \in 1..Len(p) : Text(p[i]) = Text(q[i])

\* The input files of the builder have pairwise distinct stems.
DistinctStems ==
    \A i, j \in 1..Len(builder.td_files) :
        i # j =>
            Text(file_stem(builder.td_files[i].path).v)
                # Text(file_stem(builder.td_files[j].path).v)

\* C26: when the input files have pairwise distinct stems, no two generator
\* invocations of the build have the same output path.
C26_NoOutputPathCollision ==
    DistinctStems =>
        \A i, j \in 1..Len(TblgenRuns) :
            i # j => ~SameFile(TblgenRuns[i].path, TblgenRuns[j].path)

-----------------------------------------------------------------------------
(* C24: the order of the steps of a build (checked under Spec)             *)

\* The capabilities in the order generate_for_file is claimed to take them.
CapabilityOrder ==
    <<"has_dialect", "has_ops", "has_types", "has_attrs", "has_enums">>

RowOf(flag) == CHOOSE c \in GenerationTable : c.flag = flag

\* The <<input, action>> pairs claimed for the k-th file, in order.
ExpectedOf(k) ==
    LET path == builder.td_files[k].path
        Calls(n) ==
            IF FileFlags(k)[CapabilityOrder[n]]
            THEN << <<path, RowOf(CapabilityOrder[n]).decls>>,
                    <<path, RowOf(CapabilityOrder[n]).defs>> >>
            ELSE <<>>
    IN  Calls(1) \o Calls(2) \o Calls(3) \o Calls(4) \o Calls(5)

\* The pairs claimed for the first k files of the list.
RECURSIVE ExpectedUpTo(_)
ExpectedUpTo(k) ==
    IF k = 0 THEN <<>> ELSE ExpectedUpTo(k - 1) \o ExpectedOf(k)

ExpectedRuns == ExpectedUpTo(Len(frame.classified))

\* The <<input, action>> pairs of the generator invocations made so far.
ObservedRuns ==
    [i \in 1..Len(TblgenRuns) |-> <<TblgenRuns[i].input, TblgenRuns[i].action>>]

IsPrefix(a, b) == Len(a) <= Len(b) /\ a = SubSeq(b, 1, Len(a))

\* The positions in the log of the steps of each kind.
GeneratorSteps == {i \in 1..Len(log) : log[i].prog = "mlir-tblgen"}
ShimWrites ==
    {i \in 1..Len(log) : log[i].ev = "write" /\ log[i].action = "shim"}
Compiles == {i \in 1..Len(log) : log[i].prog = "cc"}
BindingWrites ==
    {i \in 1..Len(log) : log[i].ev = "write" /\ log[i].action = "binding"}

\* C24: the generator invocations come in the order of the file list and,
\* within a file, dialect, op, typedef, attrdef, enum, declarations before
\* definitions, none following a failed one; the shim is written once, after
\* every invocation of every file has succeeded; the compile runs once, after
\* the shim is written; the binding is written once, after the compile has
\* succeeded; and build returns success only with the binding written last.
C24_PipelineOrder ==
    /\ IsPrefix(ObservedRuns, ExpectedRuns)
    /\ \A g, h \in GeneratorSteps : g < h => log[g].ev = "process" /\ log[g].ok
    /\ Cardinality(ShimWrites) <= 1
    /\ Cardinality(Compiles) <= 1
    /\ Cardinality(BindingWrites) <= 1
    /\ \A s \in ShimWrites :
           /\ \A g \in GeneratorSteps :
                  g < s /\ log[g].ev = "process" /\ log[g].ok
           /\ Len(frame.classified) = Len(builder.td_files)
           /\ ObservedRuns = ExpectedRuns
    /\ \A c \in Compiles : \E s \in ShimWrites : s < c /\ log[s].ok
    /\ \A b \in BindingWrites :
           \E c \in Compiles : c < b /\ log[c].ev = "process" /\ log[c].ok
    /\ Succeeded =>
           \E b \in BindingWrites : b = Len(log) /\ log[b].ok

\* The last position of a non-empty set of positions.
Max1(S) == CHOOSE m \in S : \A n \in S : n <= m

C24_Witness ==
    /\ Succeeded
    /\ Len(builder.td_files) = 2
    /\ builder.td_files[1].path = <<<<"src">>, <<"Bril", ".", "td">>>>
    /\ builder.td_files[2].path = <<<<"src">>, <<"BrilAttrs", ".", "td">>>>
    /\ Len(TblgenRuns) = 10
    /\ TblgenRuns[1].action = "-gen-dialect-decls"
    /\ TblgenRuns[6].action = "-gen-typedef-defs"
    /\ TblgenRuns[7].action = "-gen-attrdef-decls"
    /\ TblgenRuns[10].action = "-gen-enum-defs"
    /\ \E s \in ShimWrites, c \in Compiles, b \in BindingWrites :
           s = Max1(GeneratorSteps) + 1 /\ c = s + 1 /\ b = c + 1

-----------------------------------------------------------------------------
(* C25: what the setters change (checked under SpecCfg)                    *)

BuilderFields ==
    {"name", "cpp_namespace", "td_files", "include_dirs", "cpp_files",
     "output_dir"}

\* No field of the builder other than this one differs after the step.
OnlyChanged(field) ==
    \A f \in BuilderFields \ {field} : builder'[f] = builder[f]

\* The list keeps its entries, in order, and any new ones follow them.
Extended(field) == IsPrefix(builder[field], builder'[field])

AppendedOne(field) ==
    Extended(field) /\ Len(builder'[field]) = Len(builder[field]) + 1

\* The value is replaced by one of the values the setter can be given.
Replaced(field, values) ==
    builder'[field].some /\ builder'[field].v \in values

\* The builder as new(name) leaves it.
FreshBuilder ==
    /\ builder.name = DialectName
    /\ builder.td_files = <<>>
    /\ builder.include_dirs = <<>>
    /\ builder.cpp_files = <<>>
    /\ ~builder.cpp_namespace.some
    /\ ~builder.output_dir.some

SetterEffects ==
    /\ builder'.name = builder.name
    /\ td_file => (OnlyChanged("td_files") /\ AppendedOne("td_files"))
    /\ td_files => (OnlyChanged("td_files") /\ Extended("td_files"))
    /\ include_dir =>
           (OnlyChanged("include_dirs") /\ AppendedOne("include_dirs"))
    /\ include_dirs =>
           (OnlyChanged("include_dirs") /\ Extended("include_dirs"))
    /\ cpp_file => (OnlyChanged("cpp_files") /\ AppendedOne("cpp_files"))
    /\ cpp_files => (OnlyChanged("cpp_files") /\ Extended("cpp_files"))
    /\ cpp_namespace =>
           (OnlyChanged("cpp_namespace") /\ Replaced("cpp_namespace", NsSamples))
    /\ output_dir =>
           (OnlyChanged("output_dir") /\ Replaced("output_dir", OutputDirs))

\* C25: new(name) starts with empty lists, no namespace and no output
\* override; every setter call changes its own field only: td_file/td_files,
\* include_dir/include_dirs and cpp_file/cpp_files append to their list,
\* keeping the earlier entries in call order, cpp_namespace and output_dir
\* replace their value, and the dialect name never changes.
C25_ConfigurationAccumulation == FreshBuilder /\ [][SetterEffects]_vars

C25_Witness ==
    /\ Len(builder.td_files) = 2
    /\ builder.td_files[1].path = <<<<"src">>, <<"Bril", ".", "td">>>>
    /\ builder.td_files[2].path = <<<<"src">>, <<"BrilTypes", ".", "td">>>>
    /\ builder.include_dirs = <<<<<<"include2">>>>>>
    /\ builder.cpp_files = <<<<<<"src">>, <<"Verifiers.cpp">>>>>>
    /\ builder.cpp_namespace = Some(<<"mlir", ":", ":", "x">>)
    /\ builder.output_dir.some
    /\ builder.name = DialectName

-----------------------------------------------------------------------------
(* C23: two builds into one output root (checked under SpecPar)            *)

\* The fragment paths a build has written so far.
WrittenBy(i) == {peers[i].written[k] : k \in 1..Len(peers[i].written)}

\* The builds are of different dialects.
DifferentDialects ==
    Text(peers[1].builder.name) # Text(peers[2].builder.name)

\* C23: two builds of different dialects into the same output root never
\* write the same fragment path, whatever the interleaving of their
\* generator runs.
C23_DisjointFragmentPaths ==
    DifferentDialects =>
        \A p \in WrittenBy(1), q \in WrittenBy(2) : ~SameFile(p, q)

-----------------------------------------------------------------------------
(* C21: the symbols of two binding modules (checked under SpecPar)         *)

\* The names a binding module brings into the scope that includes it: its
\* inner scope and what it re-exports from it.
IntroducedNames(binding) ==
    {Text(binding.inner_scope)} \cup {Text(f) : f \in binding.reexports}

\* The binding module of build i is mangled with the dialect name of i.
MangledWithName(i) ==
    LET binding == peers[i].binding.v
        N == Text(peers[i].builder.name)
    IN  /\ Text(binding.foreign_symbol) = "mlirGetDialectHandle__" \o N \o "__"
        /\ Text(binding.inner_scope) = N \o "_registration"
        /\ {Text(f) : f \in binding.functions} =
               {"dialect_handle", "register", "load", "insert_into_registry"}
        /\ binding.reexports # {}

BothBindingsWritten == peers[1].binding.some /\ peers[2].binding.some

\* C21: the binding module of dialect N declares mlirGetDialectHandle__N__
\* and defines dialect_handle, register, load and insert_into_registry in an
\* inner scope N_registration that it re-exports; and the binding modules of
\* two different dialects, included in one scope, declare different foreign
\* symbols and bring no common name into that scope.
C21_BindingSymbolSeparation ==
    /\ \A i \in 1..2 : peers[i].binding.some => MangledWithName(i)
    /\ (BothBindingsWritten /\ DifferentDialects) =>
           /\ Text(peers[1].binding.v.foreign_symbol)
                  # Text(peers[2].binding.v.foreign_symbol)
           /\ IntroducedNames(peers[1].binding.v)
                  \cap IntroducedNames(peers[2].binding.v) = {}

=============================================================================
